---- MODULE Spec2Model ----
(***************************************************************************)
(* ATM account service: AccountValidator (models/Account.ts), DataStore    *)
(* (services/DataStore.ts), AccountService (services/AccountService.ts)    *)
(* and the withdraw/deposit routes (routes/accountRoutes.ts).              *)
(*                                                                         *)
(* JavaScript numbers are IEEE-754 binary floating point.  They are        *)
(* modelled as binary floating point numbers with round-to-nearest-even,   *)
(* +-Infinity and NaN, at a reduced width: P mantissa bits instead of 53   *)
(* and largest binary exponent EMax instead of 1023.  Subnormals and the   *)
(* sign of zero are not modelled.  Strings are sequences of one-character  *)
(* strings.                                                                *)
(***************************************************************************)
EXTENDS Integers, Sequences, FiniteSets, TLC

\* ------------------------------------------------------------ bounds ----
P == 21          \* mantissa bits of a number (binary64: 53)
EMax == 24       \* largest binary exponent of a finite number (binary64: 1023)
MaxSteps == 3    \* calls made on the store in one behaviour
MaxRequests == 3 \* HTTP requests received in one behaviour
MaxEighths == 48 \* largest number of eighths passed to formatBalance
MaxDigits == 13  \* longest run of digits passed to isValidAccountNumber
MaxSignals == 3  \* signals and uncaught errors the process receives

\* ----------------------------------------------- JavaScript numbers ----
Pow2(n) == 2 ^ n

\* the number of binary digits of n >= 0
Bits4(n) == IF n >= 8 THEN 4 ELSE IF n >= 4 THEN 3 ELSE IF n >= 2 THEN 2 ELSE n
Bits8(n) == IF n >= 16 THEN 4 + Bits4(n \div 16) ELSE Bits4(n)
Bits16(n) == IF n >= 256 THEN 8 + Bits8(n \div 256) ELSE Bits8(n)
BitLen(n) == IF n >= 65536 THEN 16 + Bits16(n \div 65536) ELSE Bits16(n)

Fin(s, m, e) == [k |-> "finite", s |-> s, m |-> m, e |-> e]
Zero == Fin(1, 0, 0)
NaN == [k |-> "NaN", s |-> 1, m |-> 0, e |-> 0]
Inf(s) == [k |-> "Infinity", s |-> s, m |-> 0, e |-> 0]
Infinity == Inf(1)

\* nearest number to s * S * 2^E (S > 0), ties to even; overflow gives Infinity
RoundM(s, S, E) ==
  LET L == BitLen(S)
      sh == L - P
      q == S \div Pow2(sh)
      r == S % Pow2(sh)
      half == Pow2(sh - 1)
      q1 == IF r > half \/ (r = half /\ q % 2 = 1) THEN q + 1 ELSE q
      m == IF sh <= 0 THEN S * Pow2(-sh) ELSE IF q1 = Pow2(P) THEN Pow2(P - 1) ELSE q1
      e == IF sh <= 0 THEN E + sh ELSE IF q1 = Pow2(P) THEN E + sh + 1 ELSE E + sh
  IN IF e + P - 1 > EMax THEN Inf(s) ELSE Fin(s, m, e)

\* the literal n/d (n >= 0, d > 0 integers) as a number
RECURSIVE LongDiv(_, _, _, _)
LongDiv(q, r, d, t) ==
  IF BitLen(q) >= P + 2 THEN <<q, r, t>>
  ELSE LongDiv(2 * q + (IF 2 * r >= d THEN 1 ELSE 0),
               IF 2 * r >= d THEN 2 * r - d ELSE 2 * r, d, t + 1)

FromRatio(n, d) ==
  IF n = 0 THEN Zero
  ELSE LET qr == LongDiv(n \div d, n % d, d, 0)
       IN RoundM(1, 2 * qr[1] + (IF qr[2] # 0 THEN 1 ELSE 0), -qr[3] - 1)

Neg(x) == [x EXCEPT !.s = IF x.k = "NaN" \/ (x.k = "finite" /\ x.m = 0) THEN 1 ELSE -x.s]

isNaN(x) == x.k = "NaN"
isFinite(x) == x.k = "finite"

\* |x| < |y| for finite x, y
MagLt(x, y) ==
  IF y.m = 0 THEN FALSE
  ELSE IF x.m = 0 THEN TRUE
  ELSE x.e < y.e \/ (x.e = y.e /\ x.m < y.m)

\* x < y
Lt(x, y) ==
  IF isNaN(x) \/ isNaN(y) THEN FALSE
  ELSE IF x.k = "Infinity" THEN x.s = -1 /\ ~(y.k = "Infinity" /\ y.s = -1)
  ELSE IF y.k = "Infinity" THEN y.s = 1
  ELSE IF x.s # y.s THEN x.s = -1
  ELSE IF x.s = 1 THEN MagLt(x, y) ELSE MagLt(y, x)

Gt(x, y) == Lt(y, x)
Ge(x, y) == ~isNaN(x) /\ ~isNaN(y) /\ ~Lt(x, y)

\* y.m * 8 shifted right by d bits, the bits shifted out or-ed into the last bit
Sticky(ym, d) ==
  IF d > P + 3 THEN 1
  ELSE LET f == (ym * 8) \div Pow2(d)
       IN IF (ym * 8) % Pow2(d) # 0 /\ f % 2 = 0 THEN f + 1 ELSE f

\* x + y
Plus(x, y) ==
  IF isNaN(x) \/ isNaN(y) THEN NaN
  ELSE IF x.k = "Infinity"
    THEN (IF y.k = "Infinity" /\ y.s # x.s THEN NaN ELSE x)
  ELSE IF y.k = "Infinity" THEN y
  ELSE IF x.m = 0 THEN y
  ELSE IF y.m = 0 THEN x
  ELSE LET big == IF MagLt(x, y) THEN y ELSE x
           small == IF MagLt(x, y) THEN x ELSE y
           Y == Sticky(small.m, big.e - small.e)
       IN IF x.s = y.s THEN RoundM(big.s, big.m * 8 + Y, big.e - 3)
          ELSE IF big.m * 8 = Y THEN Zero
          ELSE RoundM(big.s, big.m * 8 - Y, big.e - 3)

\* x - y
Minus(x, y) == Plus(x, Neg(y))

\* x * n for an integer 1 <= n <= 128
Times(x, n) ==
  IF x.k # "finite" \/ x.m = 0 THEN x ELSE RoundM(x.s, x.m * n, x.e)

\* x / n for an integer 1 <= n <= 128
DividedBy(x, n) ==
  IF x.k # "finite" \/ x.m = 0 THEN x
  ELSE LET N == x.m * 256
       IN RoundM(x.s, 2 * (N \div n) + (IF N % n # 0 THEN 1 ELSE 0), x.e - 9)

\* Math.floor(x)
MathRound_floor(x) ==
  IF x.k # "finite" \/ x.m = 0 \/ x.e >= 0 THEN x
  ELSE IF -x.e > P THEN (IF x.s = 1 THEN Zero ELSE RoundM(-1, 1, 0))
  ELSE LET q == x.m \div Pow2(-x.e)
           r == x.m % Pow2(-x.e)
           n == IF x.s = -1 /\ r > 0 THEN q + 1 ELSE q
       IN IF n = 0 THEN Zero ELSE RoundM(x.s, n, 0)

\* Math.round(x): nearest integer, ties towards +Infinity
MathRound(x) ==
  IF x.k # "finite" \/ x.m = 0 \/ x.e >= 0 THEN x
  ELSE IF -x.e > P THEN Zero
  ELSE LET q == x.m \div Pow2(-x.e)
           r == x.m % Pow2(-x.e)
           half == Pow2(-x.e - 1)
           n == IF x.s = 1 THEN (IF r >= half THEN q + 1 ELSE q)
                ELSE (IF r > half THEN q + 1 ELSE q)
       IN IF n = 0 THEN Zero ELSE RoundM(x.s, n, 0)

\* the decimal literal c/1000, e.g. Dec(250123) is 250.123
Dec(c) == IF c < 0 THEN Neg(FromRatio(-c, 1000)) ELSE FromRatio(c, 1000)


Number_MAX_VALUE == Fin(1, Pow2(P) - 1, EMax - P + 1)

\* a value of another type where a number is expected ("100", undefined)
NotANumber(t) == [k |-> t, s |-> 1, m |-> 0, e |-> 0]
typeofNumber(x) == IF x.k \in {"finite", "NaN", "Infinity"} THEN "number" ELSE x.k

\* ----------------------------------------------- JavaScript strings ----
Str(chars) == [t |-> "string", v |-> chars]
Undefined == [t |-> "undefined", v |-> <<>>]
Whitespace == {" ", "\t", "\n", "\r"}
Digit == {"0", "1", "2", "3", "4", "5", "6", "7", "8", "9"}

RECURSIVE trimStart(_)
trimStart(s) == IF s # <<>> /\ Head(s) \in Whitespace THEN trimStart(Tail(s)) ELSE s
RECURSIVE trimEnd(_)
trimEnd(s) ==
  IF s # <<>> /\ s[Len(s)] \in Whitespace THEN trimEnd(SubSeq(s, 1, Len(s) - 1)) ELSE s
\* String.prototype.trim on the characters of a string
trim(s) == trimEnd(trimStart(s))

\* !x for a value where a string is expected
Falsy(x) == x.t = "undefined" \/ (x.t = "string" /\ x.v = <<>>)

\* --------------------------------------------------- AccountValidator ----
\* /^\d{6,13}$/.test(accountNumber.trim())
isValidAccountNumber_upTo13(accountNumber) ==
  LET s == trim(accountNumber.v)
  IN Len(s) >= 6 /\ Len(s) <= 13 /\ \A i \in 1..Len(s) : s[i] \in Digit

\* /^\d{6,12}$/.test(accountNumber.trim())
isValidAccountNumber(accountNumber) ==
  LET s == trim(accountNumber.v)
  IN Len(s) >= 6 /\ Len(s) <= 12 /\ \A i \in 1..Len(s) : s[i] \in Digit

isValidBalance(balance) == ~isNaN(balance) /\ isFinite(balance) /\ Ge(balance, Zero)

\* amount >= 0 in place of amount > 0
isValidAmount_nonNegative(amount) == ~isNaN(amount) /\ isFinite(amount) /\ Ge(amount, Zero)

isValidAmount(amount) == ~isNaN(amount) /\ isFinite(amount) /\ Gt(amount, Zero)

\* Math.floor(balance * 100) / 100
formatBalance_floor(balance) == DividedBy(MathRound_floor(Times(balance, 100)), 100)

\* Math.round(balance * 10) / 10
formatBalance_oneDecimal(balance) == DividedBy(MathRound(Times(balance, 10)), 10)

\* Math.round(balance * 100) / 100
formatBalance(balance) == DividedBy(MathRound(Times(balance, 100)), 100)

Account(account_number, balance) == [account_number |-> account_number, balance |-> balance]

\* the errors validateAccount collects for { account_number, balance }
validateAccount(account) ==
  LET e1 == IF Falsy(account.account_number) THEN <<"Account number is required">>
            ELSE IF account.account_number.t # "string"
              THEN <<"Account number must be a string">>
            ELSE IF ~isValidAccountNumber(account.account_number)
              THEN <<"Account number must be a non-empty string with valid format">>
            ELSE <<>>
      e2 == IF account.balance.k = "undefined" THEN <<"Balance is required">>
            ELSE IF typeofNumber(account.balance) # "number"
              THEN <<"Balance must be a number">>
            ELSE IF ~isValidBalance(account.balance)
              THEN <<"Balance must be a valid number (not NaN or Infinity)">>
            ELSE <<>>
  IN [isValid |-> e1 \o e2 = <<>>, errors |-> e1 \o e2]

\* --------------------------------------------------------- results ----
NoError == [name |-> "", message |-> ""]
Err(name, message) == [name |-> name, message |-> message]
\* a boolean returned by a call
Boolean(b) == [t |-> "boolean", v |-> b]
\* a call that returned value (a sequence: no value, one account or boolean,
\* or the accounts of an array) leaving store
Return(value, store) == [threw |-> FALSE, error |-> NoError, value |-> value, accounts |-> store]
\* a call that threw error leaving store
Throw(error, store) == [threw |-> TRUE, error |-> error, value |-> <<>>, accounts |-> store]

\* AccountValidator.createAccount
Validator_createAccount(account_number, balance) ==
  IF ~validateAccount(Account(account_number, balance)).isValid
  THEN [threw |-> TRUE, error |-> Err("Error", "Invalid account data"), value |-> <<>>]
  ELSE [threw |-> FALSE, error |-> NoError,
        value |-> <<Account(Str(trim(account_number.v)), formatBalance(balance))>>]

\* ----------------------------------------------------------- DataStore ----
\* Map.prototype.set
MapSet(store, key, value) ==
  [k \in DOMAIN store \cup {key} |-> IF k = key THEN value ELSE store[k]]
\* Map.prototype.delete
MapDelete(store, key) == [k \in DOMAIN store \ {key} |-> store[k]]
EmptyMap == [k \in {} |-> Account(Undefined, Zero)]

Seed1 == <<"1", "2", "3", "4", "5", "6", "7", "8", "9">>
Seed2 == <<"9", "8", "7", "6", "5", "4", "3", "2", "1">>
Seed3 == <<"5", "5", "5", "6", "6", "6", "7", "7", "7">>
Seed4 == <<"1", "1", "1", "2", "2", "2", "3", "3", "3">>
Seed5 == <<"9", "9", "9", "8", "8", "8", "7", "7", "7">>
testAccounts ==
  << Account(Str(Seed1), Dec(1000000)), Account(Str(Seed2), Dec(2500500)),
     Account(Str(Seed3), Dec(100250)), Account(Str(Seed4), Dec(5000000)),
     Account(Str(Seed5), Dec(750750)) >>

\* DataStore.initializeAccounts: clear, then set each test account that validates
RECURSIVE initializeFrom(_, _)
initializeFrom(store, i) ==
  IF i > Len(testAccounts) THEN store
  ELSE LET a == Validator_createAccount(testAccounts[i].account_number, testAccounts[i].balance)
       IN initializeFrom(IF a.threw THEN store
                         ELSE MapSet(store, testAccounts[i].account_number.v, a.value[1]),
                         i + 1)
\* an initializeAccounts that does not clear
initializeAccounts_noClear(store) == initializeFrom(store, 1)
initializeAccounts(store) == initializeFrom(EmptyMap, 1)
\* the store the constructor leaves
seededAccounts == initializeAccounts(EmptyMap)

\* a getAccount that answers an empty account for an account number not stored
getAccount_orEmpty(store, accountNumber) ==
  IF Falsy(accountNumber) \/ accountNumber.t # "string" THEN <<>>
  ELSE IF trim(accountNumber.v) \in DOMAIN store THEN <<store[trim(accountNumber.v)]>>
  ELSE <<Account(Str(trim(accountNumber.v)), Zero)>>

\* DataStore.getAccount: the account or null, as a sequence of at most one account
getAccount(store, accountNumber) ==
  IF Falsy(accountNumber) \/ accountNumber.t # "string" THEN <<>>
  ELSE IF trim(accountNumber.v) \in DOMAIN store THEN <<store[trim(accountNumber.v)]>>
  ELSE <<>>

\* DataStore.updateAccount
updateAccount_writeFirst(store, account) ==
  LET written == MapSet(store, account.account_number.v,
                        Account(account.account_number, formatBalance(account.balance)))
  IN IF ~validateAccount(account).isValid
     THEN Throw(Err("Error", "Cannot update account"), written)
     ELSE IF account.account_number.v \notin DOMAIN store
     THEN Throw(Err("Error", "Account does not exist"), store)
     ELSE Return(<<>>, written)

updateAccount_everyEntry(store, account) ==
  IF ~validateAccount(account).isValid
  THEN Throw(Err("Error", "Cannot update account"), store)
  ELSE IF account.account_number.v \notin DOMAIN store
  THEN Throw(Err("Error", "Account does not exist"), store)
  ELSE Return(<<>>, [k \in DOMAIN store |->
                      Account(store[k].account_number, formatBalance(account.balance))])

\* an updateAccount that does not look for the account first
updateAccount_upsert(store, account) ==
  IF ~validateAccount(account).isValid
  THEN Throw(Err("Error", "Cannot update account"), store)
  ELSE Return(<<>>, MapSet(store, account.account_number.v,
                           Account(account.account_number, formatBalance(account.balance))))

updateAccount(store, account) ==
  IF ~validateAccount(account).isValid
  THEN Throw(Err("Error", "Cannot update account"), store)
  ELSE IF account.account_number.v \notin DOMAIN store
  THEN Throw(Err("Error", "Account does not exist"), store)
  ELSE Return(<<>>, MapSet(store, account.account_number.v,
                           Account(account.account_number, formatBalance(account.balance))))

\* a createAccount that looks for the account number as passed, not trimmed
createAccount_untrimmedCheck(store, accountNumber, initialBalance) ==
  IF accountNumber.t # "string"
  THEN Throw(Err("TypeError", "accountNumber.trim is not a function"), store)
  ELSE IF accountNumber.v \in DOMAIN store
  THEN Throw(Err("Error", "Account already exists"), store)
  ELSE LET a == Validator_createAccount(Str(trim(accountNumber.v)), initialBalance)
       IN IF a.threw THEN Throw(a.error, store)
          ELSE Return(a.value, MapSet(store, trim(accountNumber.v), a.value[1]))

\* a createAccount that stores the account under the account number as passed
createAccount_untrimmedKey(store, accountNumber, initialBalance) ==
  IF accountNumber.t # "string"
  THEN Throw(Err("TypeError", "accountNumber.trim is not a function"), store)
  ELSE IF trim(accountNumber.v) \in DOMAIN store
  THEN Throw(Err("Error", "Account already exists"), store)
  ELSE LET a == Validator_createAccount(Str(trim(accountNumber.v)), initialBalance)
       IN IF a.threw THEN Throw(a.error, store)
          ELSE Return(a.value, MapSet(store, accountNumber.v, a.value[1]))

\* DataStore.createAccount
createAccount(store, accountNumber, initialBalance) ==
  IF accountNumber.t # "string"
  THEN Throw(Err("TypeError", "accountNumber.trim is not a function"), store)
  ELSE IF trim(accountNumber.v) \in DOMAIN store
  THEN Throw(Err("Error", "Account already exists"), store)
  ELSE LET a == Validator_createAccount(Str(trim(accountNumber.v)), initialBalance)
       IN IF a.threw THEN Throw(a.error, store)
          ELSE Return(a.value, MapSet(store, trim(accountNumber.v), a.value[1]))

\* a deleteAccount that answers true whatever it found
deleteAccount_alwaysTrue(store, accountNumber) ==
  IF Falsy(accountNumber) \/ accountNumber.t # "string" THEN Return(<<Boolean(TRUE)>>, store)
  ELSE Return(<<Boolean(TRUE)>>, MapDelete(store, trim(accountNumber.v)))

\* DataStore.deleteAccount: Map.delete answers whether it removed an entry
deleteAccount(store, accountNumber) ==
  IF Falsy(accountNumber) \/ accountNumber.t # "string" THEN Return(<<Boolean(FALSE)>>, store)
  ELSE Return(<<Boolean(trim(accountNumber.v) \in DOMAIN store)>>,
              MapDelete(store, trim(accountNumber.v)))

\* the values of the Map as an array; the model keeps no insertion order
RECURSIVE values(_, _)
values(store, keys) ==
  IF keys = {} THEN <<>>
  ELSE LET k == CHOOSE k \in keys : TRUE
       IN <<store[k]>> \o values(store, keys \ {k})

\* DataStore.getAllAccounts
getAllAccounts(store) == Return(values(store, DOMAIN store), store)

\* DataStore.getAccountCount: this.accounts.size, a natural number
getAccountCount(store) == Return(<<Cardinality(DOMAIN store)>>, store)

\* an accountExists that looks for the account number as passed, not trimmed
accountExists_untrimmed(store, accountNumber) ==
  IF Falsy(accountNumber) \/ accountNumber.t # "string" THEN Return(<<Boolean(FALSE)>>, store)
  ELSE Return(<<Boolean(accountNumber.v \in DOMAIN store)>>, store)

\* DataStore.accountExists
accountExists(store, accountNumber) ==
  IF Falsy(accountNumber) \/ accountNumber.t # "string" THEN Return(<<Boolean(FALSE)>>, store)
  ELSE Return(<<Boolean(trim(accountNumber.v) \in DOMAIN store)>>, store)

\* DataStore.clearAllAccounts
clearAllAccounts(store) == EmptyMap

\* DataStore.reset
reset(store) == initializeAccounts(clearAllAccounts(store))

\* ------------------------------------------------------ AccountService ----
\* a getBalance that opens an account with balance 0 when it finds none
getBalance_autoCreate(store, accountNumber) ==
  IF Falsy(accountNumber) \/ accountNumber.t # "string"
  THEN Throw(Err("Error", "Account number must be a non-empty string"), store)
  ELSE IF ~isValidAccountNumber(Str(trim(accountNumber.v)))
  THEN Throw(Err("Error", "Invalid account number format"), store)
  ELSE LET account == getAccount(store, Str(trim(accountNumber.v)))
           opened == Account(Str(trim(accountNumber.v)), Zero)
       IN IF account = <<>>
          THEN Return(<<opened>>, MapSet(store, trim(accountNumber.v), opened))
          ELSE Return(<<Account(account[1].account_number, account[1].balance)>>, store)

getBalance(store, accountNumber) ==
  IF Falsy(accountNumber) \/ accountNumber.t # "string"
  THEN Throw(Err("Error", "Account number must be a non-empty string"), store)
  ELSE IF ~isValidAccountNumber(Str(trim(accountNumber.v)))
  THEN Throw(Err("Error", "Invalid account number format"), store)
  ELSE LET account == getAccount(store, Str(trim(accountNumber.v)))
       IN IF account = <<>>
          THEN Throw(Err("AccountNotFoundError", "Account not found"), store)
          ELSE Return(<<Account(account[1].account_number, account[1].balance)>>, store)

\* the same checks with the lookup of the account before the check of the amount
checkTransaction_lookupFirst(store, accountNumber, amount) ==
  IF Falsy(accountNumber) \/ accountNumber.t # "string"
  THEN Err("Error", "Account number must be a non-empty string")
  ELSE IF typeofNumber(amount) # "number"
  THEN Err("InvalidAmountError", "Amount must be a number")
  ELSE IF ~isValidAccountNumber(Str(trim(accountNumber.v)))
  THEN Err("Error", "Invalid account number format")
  ELSE IF getAccount(store, Str(trim(accountNumber.v))) = <<>>
  THEN Err("AccountNotFoundError", "Account not found")
  ELSE IF ~isValidAmount(amount)
  THEN Err("InvalidAmountError", "Amount must be greater than zero")
  ELSE NoError

\* the checks withdraw and deposit share, up to the lookup of the account
checkTransaction(store, accountNumber, amount) ==
  IF Falsy(accountNumber) \/ accountNumber.t # "string"
  THEN Err("Error", "Account number must be a non-empty string")
  ELSE IF typeofNumber(amount) # "number"
  THEN Err("InvalidAmountError", "Amount must be a number")
  ELSE IF ~isValidAccountNumber(Str(trim(accountNumber.v)))
  THEN Err("Error", "Invalid account number format")
  ELSE IF ~isValidAmount(amount)
  THEN Err("InvalidAmountError", "Amount must be greater than zero")
  ELSE IF getAccount(store, Str(trim(accountNumber.v))) = <<>>
  THEN Err("AccountNotFoundError", "Account not found")
  ELSE NoError

\* account.balance < amount
insufficientFunds_le(balance, amount) == ~Gt(balance, amount)
insufficientFunds(balance, amount) == Lt(balance, amount)

withdraw(store, accountNumber, amount) ==
  LET failed == checkTransaction(store, accountNumber, amount)
  IN IF failed # NoError THEN Throw(failed, store)
     ELSE LET account == getAccount(store, Str(trim(accountNumber.v)))[1]
              updatedAccount == Account(account.account_number,
                                        formatBalance(Minus(account.balance, amount)))
              updated == updateAccount(store, updatedAccount)
          IN IF insufficientFunds(account.balance, amount)
             THEN Throw(Err("InsufficientFundsError", "Insufficient funds for withdrawal"), store)
             ELSE IF updated.threw THEN updated
             ELSE Return(<<updatedAccount>>, updated.accounts)

deposit(store, accountNumber, amount) ==
  LET failed == checkTransaction(store, accountNumber, amount)
  IN IF failed # NoError THEN Throw(failed, store)
     ELSE LET account == getAccount(store, Str(trim(accountNumber.v)))[1]
              updatedAccount == Account(account.account_number,
                                        formatBalance(Plus(account.balance, amount)))
              updated == updateAccount(store, updatedAccount)
          IN IF updated.threw THEN updated
             ELSE Return(<<updatedAccount>>, updated.accounts)

\* ---------------------------------------------------------- inputs ----
Padded(s) == <<" ">> \o s \o <<" ">>
NewId == <<"3", "3", "3", "4", "4", "4", "5", "5", "5">>
ShortId == <<"1", "2", "3", "4", "5">>

\* account numbers passed to the service
IdInputs == {Str(Seed1), Str(Padded(Seed1)), Str(NewId), Str(ShortId), Undefined}
\* account numbers passed to the store
StoreIdInputs ==
  {Str(Seed1), Str(Padded(Seed1)), Str(NewId), Str(Padded(NewId)), Str(ShortId), Undefined}

\* 2^(P-8) + 2 + j/128: a number of the binade in which consecutive numbers
\* are 1/128 apart (2^45 + 2 + j/128 at 53 mantissa bits)
Large(j) == Fin(1, Pow2(P - 1) + 256 + j, -7)

Cent == Dec(10)
SubCent == Dec(4)
ThreeDecimals == Dec(250123)
Negative == Dec(-5000)
HalfCent == Dec(100005)

\* amounts passed to withdraw and deposit, b the balance stored under the
\* account number (a sequence of at most one number)
AmountInputs(b) ==
  IF b = <<>> THEN {Cent, Zero, NotANumber("string")}
  ELSE {Cent, SubCent, ThreeDecimals, Number_MAX_VALUE, Zero, Negative, NaN, Infinity,
        NotANumber("string"), b[1], Plus(b[1], Cent)}

\* account numbers passed to the lookups of the store
LookupInputs == StoreIdInputs \cup {Str(<<>>), Str(<<" ">>)}

\* balances a caller assigns to an account it was handed
AssignInputs == {Dec(99990000), Negative}

\* numbers passed to formatBalance: the eighths up to MaxEighths / 8 of
\* either sign (every odd one is, times 100, half way between two integers),
\* numbers written with three decimals, and numbers 1/128 apart
RoundInputs ==
  {Zero, Dec(1), Dec(-1), Dec(100123), Dec(-100123), Dec(100126), Dec(-100126)}
    \cup {Large(j) : j \in 0..3}
    \cup {RoundM(s, c, -3) : s \in {1, -1}, c \in 1..MaxEighths}

\* the string of n digits 1234567890123...
Digits(n) == [i \in 1..n |-> <<"0", "1", "2", "3", "4", "5", "6", "7", "8", "9">>[(i % 10) + 1]]
\* s with c put in its middle
Inner(s, c) == SubSeq(s, 1, Len(s) \div 2) \o <<c>> \o SubSeq(s, Len(s) \div 2 + 1, Len(s))

\* strings passed to isValidAccountNumber: up to MaxDigits digits, as they
\* are, with whitespace around, with a letter after, with a space or a dash
\* inside
IdentifierInputs ==
  UNION {{Digits(n), Padded(Digits(n)), <<"\t">> \o Digits(n) \o <<"\n">>,
          Digits(n) \o <<"a">>, Inner(Digits(n), " "), Inner(Digits(n), "-")}
         : n \in 0..MaxDigits}

\* balances passed to createAccount and updateAccount
BalanceInputs == {Zero, HalfCent, Large(2), Number_MAX_VALUE, Negative, NaN}

\* ------------------------------------------------------------ state ----
VARIABLES
  accounts,   \* DataStore.accounts: trimmed account number -> Account
  last,       \* the last call made: operation, arguments, outcome
  steps,      \* calls made so far
  requests,   \* the HTTP requests received, in order of arrival
  todo,       \* the requests whose route has not run yet (indices of requests)
  responses,  \* the responses sent: index of the request -> response
  pending,    \* the rejected promise whose catch callback has not run yet
  invoked,    \* the requests that called the service, in order of the calls
  server      \* the process: the listening server, its shutdown, its exit

httpVars == <<requests, todo, responses, pending, invoked>>
vars == <<accounts, last, steps, requests, todo, responses, pending, invoked, server>>

\* ---------------------------------------------------------- process ----
DevelopmentTimeout == 5000
DefaultTimeout == 30000

\* the process after app.listen, in environment nodeEnv, the server listening
\* or not (listen failed); nothing received yet
Started(nodeEnv, listening) ==
  [nodeEnv |-> nodeEnv, listening |-> listening, isShuttingDown |-> FALSE,
   signals |-> <<>>,   \* the signals and errors received, in order
   log |-> <<>>,       \* the lines written to the console by the shutdown
   timers |-> <<>>,    \* the timers set and not cleared: delay, time elapsed
   timersSet |-> 0,    \* calls of setTimeout so far
   closing |-> 0,      \* calls of server.close whose callback has not run
   closeCalls |-> 0,   \* calls of server.close so far
   exited |-> <<>>]    \* the codes process.exit was called with

\* gracefulShutdown without the isShuttingDown check
gracefulShutdown_unguarded(s, signal) ==
  LET shutdownTimeout == IF s.nodeEnv = "development" THEN DevelopmentTimeout
                         ELSE DefaultTimeout
  IN [s EXCEPT !.isShuttingDown = TRUE,
               !.log = Append(@, signal \o " received. Starting graceful shutdown..."),
               !.timers = Append(@, [delay |-> shutdownTimeout, elapsed |-> 0]),
               !.timersSet = @ + 1,
               !.closing = @ + 1,
               !.closeCalls = @ + 1]

\* gracefulShutdown(signal) in a process in state s
gracefulShutdown(s, signal) ==
  IF s.isShuttingDown THEN [s EXCEPT !.log = Append(@, "Shutdown already in progress...")]
  ELSE LET shutdownTimeout == IF s.nodeEnv = "development" THEN DevelopmentTimeout
                              ELSE DefaultTimeout
       IN [s EXCEPT !.isShuttingDown = TRUE,
                    !.log = Append(@, signal \o " received. Starting graceful shutdown..."),
                    !.timers = Append(@, [delay |-> shutdownTimeout, elapsed |-> 0]),
                    !.timersSet = @ + 1,
                    !.closing = @ + 1,
                    !.closeCalls = @ + 1]

\* the stored balance under the trimmed account number, if any
balanceOf(store, accountNumber) ==
  LET a == getAccount(store, accountNumber)
  IN IF a = <<>> THEN <<>> ELSE <<a[1].balance>>

\* the keys of the stored objects that the value returned by op is, or holds:
\* getAccount returns the value of the Map, createAccount the object it has
\* stored, getAllAccounts an array of the values of the Map; the service
\* returns objects it built
aliased(op, value) ==
  IF op \in {"getAccount", "createAccount", "getAllAccounts"}
  THEN {value[i].account_number.v : i \in DOMAIN value}
  ELSE {}

Called(op, accountNumber, amount, result) ==
  /\ steps < MaxSteps
  /\ steps' = steps + 1
  /\ UNCHANGED <<httpVars, server>>
  /\ \E r \in {result} :
       /\ accounts' = r.accounts
       /\ last' = [op |-> op, accountNumber |-> accountNumber, amount |-> amount,
                   threw |-> r.threw, error |-> r.error, value |-> r.value,
                   before |-> balanceOf(accounts, accountNumber),
                   refs |-> aliased(op, r.value)]

Init ==
  /\ accounts = seededAccounts
  /\ last = [op |-> "constructor", accountNumber |-> Undefined, amount |-> Zero,
             threw |-> FALSE, error |-> NoError, value |-> <<>>, before |-> <<>>,
             refs |-> {}]
  /\ steps = 0
  /\ requests = <<>>
  /\ todo = {}
  /\ responses = [n \in {} |-> [status |-> 0, code |-> "", balance |-> <<>>]]
  /\ pending = <<>>
  /\ invoked = <<>>
  /\ server = Started("development", TRUE)

GetBalance ==
  \E id \in IdInputs : Called("getBalance", id, Zero, getBalance(accounts, id))

Withdraw ==
  \E id \in IdInputs : \E amount \in AmountInputs(balanceOf(accounts, id)) :
    Called("withdraw", id, amount, withdraw(accounts, id, amount))

Deposit ==
  \E id \in IdInputs : \E amount \in AmountInputs(balanceOf(accounts, id)) :
    Called("deposit", id, amount, deposit(accounts, id, amount))

CreateAccount ==
  \E id \in StoreIdInputs : \E balance \in BalanceInputs :
    Called("createAccount", id, balance, createAccount(accounts, id, balance))

UpdateAccount ==
  \E id \in StoreIdInputs : \E balance \in BalanceInputs :
    Called("updateAccount", id, balance, updateAccount(accounts, Account(id, balance)))

DeleteAccount ==
  \E id \in LookupInputs : Called("deleteAccount", id, Zero, deleteAccount(accounts, id))

Reset == Called("reset", Undefined, Zero, Return(<<>>, reset(accounts)))

InitializeAccounts ==
  Called("initializeAccounts", Undefined, Zero, Return(<<>>, initializeAccounts(accounts)))

Next ==
  \/ GetBalance
  \/ Withdraw
  \/ Deposit
  \/ CreateAccount
  \/ UpdateAccount
  \/ DeleteAccount
  \/ Reset
  \/ InitializeAccounts

Spec == Init /\ [][Next]_vars

\* ------------------------------------------- the store used directly ----
GetAccount ==
  \E id \in LookupInputs :
    Called("getAccount", id, Zero, Return(getAccount(accounts, id), accounts))

AccountExists ==
  \E id \in LookupInputs : Called("accountExists", id, Zero, accountExists(accounts, id))

GetAllAccounts == Called("getAllAccounts", Undefined, Zero, getAllAccounts(accounts))

GetAccountCount == Called("getAccountCount", Undefined, Zero, getAccountCount(accounts))

\* the caller assigns to the balance of an account the last call returned:
\* the object assigned to is the stored one exactly when the call handed it out
AssignBalance ==
  /\ steps < MaxSteps
  /\ last.op \in {"getAccount", "createAccount", "getAllAccounts",
                  "getBalance", "withdraw", "deposit"}
  /\ \E i \in DOMAIN last.value : \E balance \in AssignInputs :
       LET key == last.value[i].account_number.v
           assigned == Account(last.value[i].account_number, balance)
       IN /\ accounts' = IF key \in last.refs THEN MapSet(accounts, key, assigned)
                          ELSE accounts
          /\ last' = [op |-> "assign", accountNumber |-> last.value[i].account_number,
                      amount |-> balance, threw |-> FALSE, error |-> NoError,
                      value |-> <<>>, before |-> balanceOf(accounts, Str(key)),
                      refs |-> {}]
  /\ steps' = steps + 1
  /\ UNCHANGED <<httpVars, server>>

NextStore ==
  \/ GetAccount
  \/ AccountExists
  \/ GetAllAccounts
  \/ GetBalance
  \/ CreateAccount
  \/ DeleteAccount
  \/ Reset
  \/ InitializeAccounts
  \/ AssignBalance

SpecStore == Init /\ [][NextStore]_vars

\* every operation of the service and of the store
NextOperations ==
  \/ Next
  \/ GetAccount
  \/ AccountExists
  \/ GetAllAccounts
  \/ GetAccountCount

SpecOperations == Init /\ [][NextOperations]_vars

\* ------------------------------------- formatBalance called directly ----
InitRound ==
  /\ accounts = seededAccounts
  /\ \E balance \in RoundInputs :
       last = [op |-> "input", accountNumber |-> Undefined, amount |-> balance,
               threw |-> FALSE, error |-> NoError, value |-> <<>>, before |-> <<>>,
               refs |-> {}]
  /\ steps = 0
  /\ requests = <<>>
  /\ todo = {}
  /\ responses = [n \in {} |-> [status |-> 0, code |-> "", balance |-> <<>>]]
  /\ pending = <<>>
  /\ invoked = <<>>
  /\ server = Started("development", TRUE)

FormatBalance ==
  /\ last.op = "input"
  /\ last' = [last EXCEPT !.op = "formatBalance", !.value = <<formatBalance(last.amount)>>]
  /\ steps' = steps + 1
  /\ UNCHANGED <<accounts, requests, todo, responses, pending, invoked, server>>

NextRound == FormatBalance

SpecRound == InitRound /\ [][NextRound]_vars

\* ------------------------------ isValidAccountNumber called directly ----
InitIdentifier ==
  /\ accounts = seededAccounts
  /\ \E s \in IdentifierInputs :
       last = [op |-> "input", accountNumber |-> Str(s), amount |-> Zero,
               threw |-> FALSE, error |-> NoError, value |-> <<>>, before |-> <<>>,
               refs |-> {}]
  /\ steps = 0
  /\ requests = <<>>
  /\ todo = {}
  /\ responses = [n \in {} |-> [status |-> 0, code |-> "", balance |-> <<>>]]
  /\ pending = <<>>
  /\ invoked = <<>>
  /\ server = Started("development", TRUE)

IsValidAccountNumber ==
  /\ last.op = "input"
  /\ last' = [last EXCEPT !.op = "isValidAccountNumber",
                          !.value = <<Boolean(isValidAccountNumber(last.accountNumber))>>]
  /\ steps' = steps + 1
  /\ UNCHANGED <<accounts, requests, todo, responses, pending, invoked, server>>

NextIdentifier == IsValidAccountNumber

SpecIdentifier == InitIdentifier /\ [][NextIdentifier]_vars

\* --------------------------------------------------------- shutdown ----
storeVars == <<accounts, last, steps, requests, todo, responses, pending, invoked>>

InitShutdown ==
  /\ accounts = seededAccounts
  /\ last = [op |-> "constructor", accountNumber |-> Undefined, amount |-> Zero,
             threw |-> FALSE, error |-> NoError, value |-> <<>>, before |-> <<>>,
             refs |-> {}]
  /\ steps = 0
  /\ requests = <<>>
  /\ todo = {}
  /\ responses = [n \in {} |-> [status |-> 0, code |-> "", balance |-> <<>>]]
  /\ pending = <<>>
  /\ invoked = <<>>
  /\ \E nodeEnv \in {"development", "production"} : \E listening \in BOOLEAN :
       server = Started(nodeEnv, listening)

\* the handlers of SIGTERM, SIGINT, uncaughtException and unhandledRejection
Signal ==
  /\ server.exited = <<>>
  /\ Len(server.signals) < MaxSignals
  /\ \E signal \in {"SIGTERM", "SIGINT", "UNCAUGHT_EXCEPTION", "UNHANDLED_REJECTION"} :
       server' = [gracefulShutdown(server, signal) EXCEPT !.signals = Append(@, signal)]
  /\ UNCHANGED storeVars

\* DevelopmentTimeout ms pass with no timer due; the callback of a close of
\* a server that is not running is called on the next tick, before that
Tick ==
  /\ server.exited = <<>>
  /\ server.timers # <<>>
  /\ \A i \in DOMAIN server.timers : server.timers[i].elapsed < server.timers[i].delay
  /\ server.listening \/ server.closing = 0
  /\ server' = [server EXCEPT
                  !.timers = [i \in DOMAIN @ |->
                                [@[i] EXCEPT !.elapsed = @ + DevelopmentTimeout]]]
  /\ UNCHANGED storeVars

\* the callback of forceShutdownTimer
ForceShutdown ==
  /\ server.exited = <<>>
  /\ \E i \in DOMAIN server.timers :
       /\ server.timers[i].elapsed >= server.timers[i].delay
       /\ server' = [server EXCEPT
                       !.log = Append(@, "Forced shutdown after "
                                           \o ToString(server.timers[i].delay \div 1000)
                                           \o "s timeout"),
                       !.exited = Append(@, 1)]
  /\ UNCHANGED storeVars

\* the callback of server.close, the last connection ended: no error
ServerClosed ==
  /\ server.exited = <<>>
  /\ server.closing > 0
  /\ server.listening
  /\ server' = [server EXCEPT !.timers = Tail(@), !.closing = @ - 1,
                              !.log = Append(@, "Server closed successfully"),
                              !.exited = Append(@, 0)]
  /\ UNCHANGED storeVars

\* the callback of server.close of a server that is not running: an error
ServerNotRunning ==
  /\ server.exited = <<>>
  /\ server.closing > 0
  /\ ~server.listening
  /\ server' = [server EXCEPT !.timers = Tail(@), !.closing = @ - 1,
                              !.log = Append(@, "Error during server shutdown"),
                              !.exited = Append(@, 1)]
  /\ UNCHANGED storeVars

NextShutdown ==
  \/ Signal
  \/ Tick
  \/ ForceShutdown
  \/ ServerClosed
  \/ ServerNotRunning

\* timers fire and next-tick callbacks run; connections may stay open
SpecShutdown ==
  /\ InitShutdown
  /\ [][NextShutdown]_vars
  /\ WF_vars(Tick)
  /\ WF_vars(ForceShutdown)
  /\ WF_vars(ServerNotRunning)

\* ------------------------------------------------------ HTTP routes ----
\* POST /accounts/:account_number/<route> with a Content-Type header and a
\* JSON body holding the fields named, amount among them or not
Request(route, account_number, contentType, fields, amount) ==
  [route |-> route, account_number |-> Str(account_number), contentType |-> contentType,
   body |-> "object", fields |-> fields, amount |-> amount]
\* the same with no body for express.json() to parse: req.body is undefined
NoBody(route, account_number, contentType) ==
  [route |-> route, account_number |-> Str(account_number), contentType |-> contentType,
   body |-> "undefined", fields |-> {}, amount |-> NotANumber("undefined")]

\* the fields of the body passed to res.json, by the code the body carries
\* ("" for the body of a 200 response); handleError adds details to a 500
\* response outside production, which is left out
bodyKeys(code) ==
  IF code = "" THEN {"account_number", "balance", "transaction", "amount"}
  ELSE IF code \in {"MISSING_ACCOUNT_NUMBER", "INVALID_REQUEST_BODY", "MISSING_AMOUNT"}
  THEN {"error", "code"}
  ELSE IF code \in {"INVALID_ACCOUNT_NUMBER", "INVALID_CONTENT_TYPE", "INVALID_AMOUNT_TYPE",
                    "INVALID_AMOUNT_VALUE"}
  THEN {"error", "code", "provided"}
  ELSE IF code = "UNEXPECTED_FIELDS"
  THEN {"error", "code", "unexpectedFields", "allowedFields"}
  ELSE {"error", "code", "timestamp", "path", "method"}

Response(status, code, balance) ==
  [status |-> status, code |-> code, balance |-> balance, keys |-> bodyKeys(code)]

\* the middleware with validateAmount run before validateContentType
validation_amountFirst(req) ==
  IF Falsy(req.account_number) THEN "MISSING_ACCOUNT_NUMBER"
  ELSE IF ~isValidAccountNumber(req.account_number) THEN "INVALID_ACCOUNT_NUMBER"
  ELSE IF "amount" \notin req.fields \/ req.amount.k \in {"undefined", "null"}
  THEN "MISSING_AMOUNT"
  ELSE IF typeofNumber(req.amount) # "number" THEN "INVALID_AMOUNT_TYPE"
  ELSE IF ~isValidAmount(req.amount) THEN "INVALID_AMOUNT_VALUE"
  ELSE IF req.contentType # "application/json" THEN "INVALID_CONTENT_TYPE"
  ELSE IF req.body # "object" THEN "INVALID_REQUEST_BODY"
  ELSE IF req.fields \ {"amount"} # {} THEN "UNEXPECTED_FIELDS"
  ELSE ""

\* the middleware of the withdraw and deposit routes, in order: the code of
\* the 400 response of the first that does not call next(), "" if all do
validation(req) ==
  IF Falsy(req.account_number) THEN "MISSING_ACCOUNT_NUMBER"
  ELSE IF ~isValidAccountNumber(req.account_number) THEN "INVALID_ACCOUNT_NUMBER"
  ELSE IF req.contentType # "application/json" THEN "INVALID_CONTENT_TYPE"
  ELSE IF req.body # "object" THEN "INVALID_REQUEST_BODY"
  ELSE IF req.fields \ {"amount"} # {} THEN "UNEXPECTED_FIELDS"
  ELSE IF "amount" \notin req.fields \/ req.amount.k \in {"undefined", "null"}
  THEN "MISSING_AMOUNT"
  ELSE IF typeofNumber(req.amount) # "number" THEN "INVALID_AMOUNT_TYPE"
  ELSE IF ~isValidAmount(req.amount) THEN "INVALID_AMOUNT_VALUE"
  ELSE ""

\* the service call of a route on req.validatedAccountNumber, req.validatedAmount
routeHandler_staleRead(store, req) ==
  LET accountNumber == Str(trim(req.account_number.v))
      read == seededAccounts
      r == IF req.route = "withdraw" THEN withdraw(read, accountNumber, req.amount)
           ELSE deposit(read, accountNumber, req.amount)
  IN IF r.threw THEN Throw(r.error, store)
     ELSE Return(r.value, MapSet(store, accountNumber.v, r.accounts[accountNumber.v]))

routeHandler(store, req) ==
  LET accountNumber == Str(trim(req.account_number.v))
  IN IF req.route = "withdraw" THEN withdraw(store, accountNumber, req.amount)
     ELSE deposit(store, accountNumber, req.amount)

\* ErrorHandlingMiddleware.createErrorResponse
createErrorResponse(error) ==
  IF error.name = "AccountNotFoundError" THEN Response(404, "ACCOUNT_NOT_FOUND", <<>>)
  ELSE IF error.name = "InsufficientFundsError" THEN Response(400, "INSUFFICIENT_FUNDS", <<>>)
  ELSE IF error.name = "InvalidAmountError" THEN Response(400, "INVALID_AMOUNT", <<>>)
  ELSE Response(500, "INTERNAL_ERROR", <<>>)

Hundred == Dec(100000)
FourHundred == Dec(400000)
SixHundred == Dec(600000)

\* the requests sent to the server
HttpInputs ==
  { Request("withdraw", Seed1, "application/json", {"amount"}, SixHundred),
    Request("withdraw", Padded(Seed1), "application/json", {"amount"}, FourHundred),
    Request("deposit", Seed1, "application/json", {"amount"}, Hundred),
    Request("withdraw", NewId, "application/json", {"amount"}, Hundred),
    Request("deposit", Seed1, "application/json", {"amount"}, Zero),
    Request("deposit", Seed1, "text/plain", {}, NotANumber("undefined")),
    Request("withdraw", ShortId, "application/json", {"amount", "pin"}, Hundred) }

\* the requests sent to a server that serves one request
RequestInputs ==
  UNION {{Request(route, id, contentType, fields, amount) :
            fields \in {{}, {"amount"}, {"amount", "pin"}},
            amount \in {Hundred, Zero, Number_MAX_VALUE, NotANumber("string"),
                        NotANumber("null")}}
         \cup {NoBody(route, id, contentType)} :
         route \in {"withdraw", "deposit"}, id \in {Seed1, NewId, ShortId, <<>>},
         contentType \in {"application/json", "text/plain", ""}}

\* a request arrives; its body is read while other requests are served
Receive ==
  /\ Len(requests) < MaxRequests
  /\ \E req \in HttpInputs :
       /\ requests' = Append(requests, req)
       /\ todo' = todo \cup {Len(requests) + 1}
  /\ UNCHANGED <<accounts, last, steps, responses, pending, invoked, server>>

\* one turn of the event loop: the middleware of the route and its async
\* handler run to the end; a handler that throws leaves a rejected promise
Dispatch(n) ==
  /\ pending = <<>>
  /\ todo' = todo \ {n}
  /\ LET rejected == validation(requests[n])
     IN IF rejected # ""
        THEN /\ responses' = responses @@ (n :> Response(400, rejected, <<>>))
             /\ UNCHANGED <<accounts, pending, invoked>>
        ELSE \E r \in {routeHandler(accounts, requests[n])} :
               /\ accounts' = r.accounts
               /\ invoked' = Append(invoked, n)
               /\ IF r.threw
                  THEN /\ pending' = <<[n |-> n, error |-> r.error]>>
                       /\ UNCHANGED responses
                  ELSE /\ responses' = responses @@ (n :> Response(200, "", <<r.value[1].balance>>))
                       /\ UNCHANGED pending
  /\ UNCHANGED <<last, steps, requests, server>>

\* the microtask of asyncHandler: catch(next) passes the error to handleError
CatchError ==
  /\ pending # <<>>
  /\ responses' = responses @@ (pending[1].n :> createErrorResponse(pending[1].error))
  /\ pending' = <<>>
  /\ UNCHANGED <<accounts, last, steps, requests, todo, invoked, server>>

NextHttp ==
  \/ Receive
  \/ \E n \in todo : Dispatch(n)
  \/ CatchError

SpecHttp == Init /\ [][NextHttp]_vars

\* one request, of any shape, served from the seeded store
InitRequest ==
  /\ accounts = seededAccounts
  /\ last = [op |-> "constructor", accountNumber |-> Undefined, amount |-> Zero,
             threw |-> FALSE, error |-> NoError, value |-> <<>>, before |-> <<>>,
             refs |-> {}]
  /\ steps = 0
  /\ \E req \in RequestInputs : requests = <<req>>
  /\ todo = {1}
  /\ responses = [n \in {} |-> [status |-> 0, code |-> "", balance |-> <<>>]]
  /\ pending = <<>>
  /\ invoked = <<>>
  /\ server = Started("development", TRUE)

NextRequest ==
  \/ \E n \in todo : Dispatch(n)
  \/ CatchError

SpecRequest == InitRequest /\ [][NextRequest]_vars


\* ----------------------------------------------------------- claims ----
\* the key of the store the last call addressed
LastKey == trim(last.accountNumber.v)
\* the last call was op on an account present in the store, with a valid amount
OnStoredAccount(op) ==
  last.op = op /\ last.before # <<>> /\ isValidAmount(last.amount)

\* C1: withdraw of a valid amount a <= b from a stored account with balance b
\* succeeds, returns formatBalance(b - a), stores exactly the returned
\* balance, and getBalance then returns it.
C1_WithdrawResult ==
  (OnStoredAccount("withdraw") /\ ~Gt(last.amount, last.before[1]))
    => /\ ~last.threw
       /\ last.value[1].balance = formatBalance(Minus(last.before[1], last.amount))
       /\ accounts[LastKey].balance = last.value[1].balance
       /\ LET read == getBalance(accounts, last.accountNumber)
          IN ~read.threw /\ read.value[1].balance = last.value[1].balance

\* C2: on a stored account and a valid amount, withdraw throws
\* InsufficientFundsError exactly when amount > balance; withdrawing the whole
\* balance succeeds and leaves 0.
C2_StrictFundsCheck ==
  OnStoredAccount("withdraw")
    => /\ (last.threw /\ last.error.name = "InsufficientFundsError")
            <=> Gt(last.amount, last.before[1])
       /\ last.amount = last.before[1]
            => /\ ~last.threw
               /\ last.value[1].balance = Zero
               /\ accounts[LastKey].balance = Zero

C2_Witness ==
  /\ OnStoredAccount("withdraw")
  /\ last.amount = last.before[1]
  /\ ~last.threw
  /\ accounts[LastKey].balance = Zero

\* C3: deposit of a valid amount a on a stored account with balance b always
\* succeeds, returns formatBalance(b + a), stores exactly the returned balance,
\* and getBalance then returns it.
C3_DepositResult ==
  OnStoredAccount("deposit")
    => /\ ~last.threw
       /\ last.value[1].balance = formatBalance(Plus(last.before[1], last.amount))
       /\ accounts[LastKey].balance = last.value[1].balance
       /\ LET read == getBalance(accounts, last.accountNumber)
          IN ~read.threw /\ read.value[1].balance = last.value[1].balance

\* C4: a call that throws leaves the store as it was: the same account
\* numbers, the same account under each.
C4_FailureLeavesStore == [][last'.threw => accounts' = accounts]_vars

C4_Witness ==
  /\ last.op = "withdraw"
  /\ last.threw
  /\ last.error.name = "InsufficientFundsError"

\* C5: every account held in the store passes validateAccount.
C5_StoredAccountsValid ==
  \A k \in DOMAIN accounts : validateAccount(accounts[k]).isValid

\* C6: withdraw and deposit on one account change neither the presence nor
\* the stored value of any other account.
C6_Isolation ==
  [][last'.op \in {"withdraw", "deposit"}
       => \A k \in (DOMAIN accounts \cup DOMAIN accounts') \ {trim(last'.accountNumber.v)} :
            k \in DOMAIN accounts /\ k \in DOMAIN accounts' /\ accounts'[k] = accounts[k]]_vars

C6_Witness ==
  /\ last.op \in {"withdraw", "deposit"}
  /\ ~last.threw
  /\ accounts[LastKey].balance # last.before[1]
  /\ DOMAIN accounts \ {LastKey} # {}

\* the integer a finite whole number stands for
IntValue(x) ==
  IF x.m = 0 THEN 0
  ELSE IF x.e >= 0 THEN x.s * x.m * Pow2(x.e) ELSE x.s * (x.m \div Pow2(-x.e))
\* 2^(P-10) (2^43 at 53 mantissa bits): below it consecutive numbers are less
\* than 1/512 apart
SafeLimit == Fin(1, Pow2(P - 1), -9)
InSafeRange(x) == isFinite(x) /\ ~Lt(x, Zero) /\ Lt(x, SafeLimit)
\* the whole number of cents nearest to x
Cents(x) == IntValue(MathRound(Times(x, 100)))
\* x is the number written with two decimals
WholeCents(x) == InSafeRange(x) /\ x = FromRatio(Cents(x), 100)
\* the last call was a withdraw or deposit that returned
Transacted == last.op \in {"withdraw", "deposit"} /\ last.before # <<>> /\ ~last.threw

\* C7 as stated: a successful withdraw leaves balance - amount and a
\* successful deposit leaves balance + amount, for every amount.
C7_ExactAmount ==
  Transacted
    => accounts[LastKey].balance =
         IF last.op = "withdraw" THEN Minus(last.before[1], last.amount)
         ELSE Plus(last.before[1], last.amount)

\* C7, amended: when the amount and the balance are numbers of whole cents
\* below SafeLimit (and so is their sum), a successful withdraw leaves the
\* number of whole cents cents(balance) - cents(amount) and a successful
\* deposit cents(balance) + cents(amount); by induction the balance after a
\* sequence of such calls is the initial cents plus the deposited cents minus
\* the withdrawn cents.
C7_ExactCents ==
  (/\ Transacted
   /\ WholeCents(last.amount)
   /\ WholeCents(last.before[1])
   /\ InSafeRange(Plus(last.before[1], last.amount)))
    => LET c == IF last.op = "withdraw"
                THEN Cents(last.before[1]) - Cents(last.amount)
                ELSE Cents(last.before[1]) + Cents(last.amount)
       IN /\ c >= 0
          /\ accounts[LastKey].balance = FromRatio(c, 100)
          /\ WholeCents(accounts[LastKey].balance)
          /\ Cents(accounts[LastKey].balance) = c

C7_Witness ==
  /\ Transacted
  /\ steps >= 2
  /\ WholeCents(last.amount)
  /\ WholeCents(last.before[1])
  /\ InSafeRange(Plus(last.before[1], last.amount))
  /\ Cents(accounts[LastKey].balance) # Cents(last.before[1])
  /\ Cents(last.before[1]) # Cents(Dec(1000000))

\* C8 as stated: after deposit(i, a) of a valid amount on a stored account,
\* the deposit has succeeded and withdraw(i, a) succeeds and stores the
\* balance held before the deposit.
C8_DepositThenWithdraw ==
  OnStoredAccount("deposit")
    => /\ ~last.threw
       /\ LET w == withdraw(accounts, last.accountNumber, last.amount)
          IN ~w.threw /\ w.accounts[LastKey].balance = last.before[1]

\* C8, amended: the same for an amount and a balance of whole cents whose sum
\* is below SafeLimit.
C8_DepositThenWithdrawCents ==
  (/\ OnStoredAccount("deposit")
   /\ WholeCents(last.amount)
   /\ WholeCents(last.before[1])
   /\ InSafeRange(Plus(last.before[1], last.amount)))
    => /\ ~last.threw
       /\ LET w == withdraw(accounts, last.accountNumber, last.amount)
          IN ~w.threw /\ w.accounts[LastKey].balance = last.before[1]

C8_Witness ==
  /\ OnStoredAccount("deposit")
  /\ ~last.threw
  /\ WholeCents(last.amount)
  /\ WholeCents(last.before[1])
  /\ InSafeRange(Plus(last.before[1], last.amount))
  /\ accounts[LastKey].balance # last.before[1]
  /\ LET w == withdraw(accounts, last.accountNumber, last.amount)
     IN ~w.threw /\ w.accounts[LastKey].balance = last.before[1]

\* the results of the first i service calls run one after another from the
\* seeded store, in the order they were invoked
RECURSIVE Sequential(_)
Sequential(i) ==
  IF i = 0 THEN <<>>
  ELSE LET run == Sequential(i - 1)
           store == IF i = 1 THEN seededAccounts ELSE run[i - 1].accounts
       IN Append(run, routeHandler(store, requests[invoked[i]]))

\* cents deposited minus cents withdrawn under key by the requests 1..i
\* answered with status 200
RECURSIVE Net(_, _)
Net(key, i) ==
  IF i = 0 THEN 0
  ELSE Net(key, i - 1) +
       (IF i \in DOMAIN responses /\ responses[i].status = 200
           /\ trim(requests[i].account_number.v) = key
        THEN (IF requests[i].route = "deposit" THEN Cents(requests[i].amount)
              ELSE -Cents(requests[i].amount))
        ELSE 0)

\* C9: with several withdraw and deposit requests in flight, the store is
\* the one left by running the service calls one after another in the order
\* they were invoked, each answer is the one of that sequential run, no
\* update is lost (every balance is the seeded cents plus the cents of the
\* deposits answered 200 minus the cents of the withdrawals answered 200),
\* and no balance is below zero.
C9_Serialised ==
  LET run == Sequential(Len(invoked))
  IN /\ accounts = IF invoked = <<>> THEN seededAccounts ELSE run[Len(invoked)].accounts
     /\ \A i \in 1..Len(invoked) :
          invoked[i] \in DOMAIN responses
            => responses[invoked[i]] =
                 IF run[i].threw THEN createErrorResponse(run[i].error)
                 ELSE Response(200, "", <<run[i].value[1].balance>>)
     /\ DOMAIN accounts = DOMAIN seededAccounts
     /\ \A key \in DOMAIN accounts :
          LET c == Cents(seededAccounts[key].balance) + Net(key, Len(requests))
          IN /\ c >= 0
             /\ accounts[key].balance = FromRatio(c, 100)
             /\ isValidBalance(accounts[key].balance)

\* two requests in flight together, served in the other order than they
\* arrived, both answered 200, and a third refused for insufficient funds
C9_Witness ==
  /\ Len(invoked) >= 3
  /\ invoked[1] > invoked[2]
  /\ \A i \in 1..2 : invoked[i] \in DOMAIN responses /\ responses[invoked[i]].status = 200
  /\ invoked[3] \in DOMAIN responses
  /\ responses[invoked[3]].code = "INSUFFICIENT_FUNDS"
  /\ accounts[Seed1].balance = Zero

\* C10: every balance held in the store is rounded to two decimals:
\* formatBalance(balance) = balance.
C10_StoredBalancesRounded ==
  \A k \in DOMAIN accounts : formatBalance(accounts[k].balance) = accounts[k].balance

\* the errors of the service by the names the specification gives them
InvalidInput == Err("Error", "Account number must be a non-empty string")
InvalidFormat == Err("Error", "Invalid account number format")
NotFound == Err("AccountNotFoundError", "Account not found")
InsufficientFunds == Err("InsufficientFundsError", "Insufficient funds for withdrawal")
\* the last call threw error
Failed(error) == last.threw /\ last.error = error
\* the argument is a non-empty string
NonEmptyString(x) == x.t = "string" /\ x.v # <<>>

\* C11: withdraw and deposit report the first failing check in the order:
\* account number not a non-empty string, amount not a number, account
\* number format, amount not a valid positive amount, account absent, and for
\* withdraw amount > balance; an invalid amount on an absent account gives
\* InvalidAmountError, not AccountNotFoundError.
C11_ValidationOrder ==
  last.op \in {"withdraw", "deposit"}
    => LET id == last.accountNumber
           amount == last.amount
           isString == NonEmptyString(id)
           isNumber == typeofNumber(amount) = "number"
           wellFormed == isString /\ isNumber /\ isValidAccountNumber(id)
           positive == wellFormed /\ isValidAmount(amount)
       IN /\ ~isString => Failed(InvalidInput)
          /\ (isString /\ ~isNumber)
               => Failed(Err("InvalidAmountError", "Amount must be a number"))
          /\ (isString /\ isNumber /\ ~wellFormed) => Failed(InvalidFormat)
          /\ (wellFormed /\ ~positive)
               => Failed(Err("InvalidAmountError", "Amount must be greater than zero"))
          /\ (positive /\ last.before = <<>>) => Failed(NotFound)
          /\ (positive /\ last.before # <<>> /\ last.op = "withdraw"
                /\ Gt(amount, last.before[1])) => Failed(InsufficientFunds)

\* an invalid amount on an absent account
C11_Witness ==
  /\ last.op \in {"withdraw", "deposit"}
  /\ last.accountNumber = Str(NewId)
  /\ last.amount = Zero
  /\ trim(last.accountNumber.v) \notin DOMAIN accounts
  /\ Failed(Err("InvalidAmountError", "Amount must be greater than zero"))

\* C12: getBalance, withdraw and deposit on a well-formed account number (and
\* a valid amount) under which the store holds nothing throw
\* AccountNotFoundError and leave the store without an entry for it.
C12_AbsentAccountNotFound ==
  [][(/\ last'.op \in {"getBalance", "withdraw", "deposit"}
      /\ NonEmptyString(last'.accountNumber)
      /\ isValidAccountNumber(last'.accountNumber)
      /\ last'.op = "getBalance" \/ isValidAmount(last'.amount)
      /\ trim(last'.accountNumber.v) \notin DOMAIN accounts)
       => /\ last'.threw
          /\ last'.error = NotFound
          /\ trim(last'.accountNumber.v) \notin DOMAIN accounts'
          /\ accounts' = accounts]_vars

C12_Witness ==
  /\ last.op = "deposit"
  /\ last.accountNumber = Str(NewId)
  /\ isValidAmount(last.amount)
  /\ Failed(NotFound)
  /\ NewId \notin DOMAIN accounts

InvalidAmount == Err("InvalidAmountError", "Amount must be greater than zero")

\* C13: withdraw and deposit succeed only with an amount that is finite, not
\* NaN and greater than zero; on a well-formed account number, stored or not,
\* an amount that is zero, negative, NaN or infinite makes both throw
\* InvalidAmountError.
C13_AmountValidity ==
  last.op \in {"withdraw", "deposit"}
    => /\ ~last.threw
            => /\ last.amount.k = "finite"
               /\ last.amount.m > 0
               /\ last.amount.s = 1
       /\ (/\ NonEmptyString(last.accountNumber)
           /\ isValidAccountNumber(last.accountNumber)
           /\ \/ last.amount.k \in {"NaN", "Infinity"}
              \/ last.amount.k = "finite" /\ (last.amount.m = 0 \/ last.amount.s = -1))
            => Failed(InvalidAmount)

C13_Witness ==
  /\ last.op \in {"withdraw", "deposit"}
  /\ last.before # <<>>
  /\ last.amount = Infinity
  /\ Failed(InvalidAmount)

AlreadyExists == Err("Error", "Account already exists")

\* C14: createAccount with an account number whose trimmed form is a key of
\* the store throws 'already exists' and leaves the account stored under it
\* as it was, whatever initial balance is passed.
C14_UniqueAccountNumbers ==
  (last.op = "createAccount" /\ last.before # <<>>)
    => /\ Failed(AlreadyExists)
       /\ LastKey \in DOMAIN accounts
       /\ accounts[LastKey].balance = last.before[1]

\* a second createAccount of an account created earlier, padded with spaces
\* and with an invalid initial balance
C14_Witness ==
  /\ last.op = "createAccount"
  /\ last.accountNumber = Str(Padded(NewId))
  /\ last.amount = NaN
  /\ last.before # <<>>
  /\ Failed(AlreadyExists)

InvalidData == Err("Error", "Invalid account data")

\* C15: createAccount with an account number not in the store: when the
\* account number is well formed and the balance finite and >= 0 it stores
\* and returns { trimmed account number, formatBalance(initialBalance) } and
\* getAccount then returns that account; with an invalid account number or
\* balance it throws 'Invalid account data' and adds no entry.
C15_CreateResult ==
  (last.op = "createAccount" /\ last.before = <<>>)
    => LET id == last.accountNumber
           created == Account(Str(trim(id.v)), formatBalance(last.amount))
       IN IF /\ NonEmptyString(id)
             /\ isValidAccountNumber(id)
             /\ last.amount.k = "finite"
             /\ last.amount.m = 0 \/ last.amount.s = 1
          THEN /\ ~last.threw
               /\ last.value = <<created>>
               /\ trim(id.v) \in DOMAIN accounts
               /\ accounts[trim(id.v)] = created
               /\ getAccount(accounts, id) = <<created>>
          ELSE /\ Failed(InvalidData)
               /\ trim(id.v) \notin DOMAIN accounts

ValidationFailed == Err("Error", "Cannot update account")
DoesNotExist == Err("Error", "Account does not exist")

\* C16: updateAccount(account) throws 'Cannot update account' when
\* validateAccount rejects the account, throws 'does not exist' when the
\* account number is not a key of the store, and otherwise replaces the
\* account stored under it by { account_number, formatBalance(balance) };
\* it never adds or removes a key.
C16_UpdateResult ==
  [][last'.op = "updateAccount"
       => LET account == Account(last'.accountNumber, last'.amount)
              key == account.account_number.v
          IN /\ DOMAIN accounts' = DOMAIN accounts
             /\ IF ~validateAccount(account).isValid
                THEN /\ last'.threw
                     /\ last'.error = ValidationFailed
                     /\ accounts' = accounts
                ELSE IF key \notin DOMAIN accounts
                THEN /\ last'.threw
                     /\ last'.error = DoesNotExist
                     /\ accounts' = accounts
                ELSE /\ ~last'.threw
                     /\ accounts' = [accounts EXCEPT ![key] =
                          Account(account.account_number, formatBalance(account.balance))]]_vars

\* an update that replaced a stored balance by the rounded new balance
C16_Witness ==
  /\ last.op = "updateAccount"
  /\ ~last.threw
  /\ last.amount = HalfCent
  /\ accounts[LastKey].balance = formatBalance(HalfCent)
  /\ accounts[LastKey].balance # last.before[1]
  /\ accounts[LastKey].balance # HalfCent
\* C17: the lookups of the store trim the account number: getAccount(s),
\* accountExists(s), deleteAccount(s) and createAccount(s, _) address the entry
\* stored under the trimmed s; getAccount of an account number that is
\* unknown, empty or not a string returns null and throws nothing
C17_LookupsTrim ==
  [][LET s == last'.accountNumber
         key == trim(s.v)
         others == DOMAIN accounts \ {key}
     IN /\ last'.op = "getAccount"
             => /\ ~last'.threw
                /\ last'.value = IF s.t = "string" /\ key \in DOMAIN accounts
                                  THEN <<accounts[key]>> ELSE <<>>
                /\ accounts' = accounts
        /\ (last'.op = "accountExists" /\ s.t = "string")
             => /\ last'.value = <<Boolean(key \in DOMAIN accounts)>>
                /\ accounts' = accounts
        /\ (last'.op = "deleteAccount" /\ s.t = "string")
             => /\ DOMAIN accounts' = others
                /\ \A k \in others : accounts'[k] = accounts[k]
        /\ (last'.op = "createAccount" /\ s.t = "string")
             => IF key \in DOMAIN accounts
                THEN /\ last'.threw
                     /\ last'.error = AlreadyExists
                     /\ accounts' = accounts
                ELSE /\ \A k \in others : k \in DOMAIN accounts' /\ accounts'[k] = accounts[k]
                     /\ ~last'.threw => /\ DOMAIN accounts' = DOMAIN accounts \cup {key}
                                         /\ accounts'[key].account_number = Str(key)]_vars

\* getAccount with spaces around the account number has found the account
\* that createAccount stored
C17_Witness ==
  /\ last.op = "getAccount"
  /\ last.accountNumber = Str(Padded(NewId))
  /\ last.value # <<>>
  /\ last.value[1].account_number = Str(NewId)
\* C18: deleteAccount returns true exactly when the store held an entry under
\* the trimmed account number; that entry is then gone and every other entry
\* is as before; otherwise it returns false and the store is as before; it
\* never throws
C18_DeleteResult ==
  [][last'.op = "deleteAccount"
       => LET s == last'.accountNumber
              present == s.t = "string" /\ trim(s.v) \in DOMAIN accounts
          IN /\ ~last'.threw
             /\ last'.value = <<Boolean(present)>>
             /\ IF present
                THEN /\ DOMAIN accounts' = DOMAIN accounts \ {trim(s.v)}
                     /\ \A k \in DOMAIN accounts' : accounts'[k] = accounts[k]
                ELSE accounts' = accounts]_vars

\* deleteAccount with spaces around a stored account number has returned true
C18_Witness ==
  /\ last.op = "deleteAccount"
  /\ last.accountNumber = Str(Padded(Seed1))
  /\ last.value = <<Boolean(TRUE)>>
  /\ Seed1 \notin DOMAIN accounts
\* C19: every read hands out a copy: assigning to the balance of an account
\* returned by getAccount, getAllAccounts, getBalance, createAccount, withdraw
\* or deposit leaves the store, and so every later read, as it was
C19_ReadsAreCopies == [][last'.op = "assign" => accounts' = accounts]_vars
\* the integer nearest to x, ties away from zero
RoundHalfAway(x) ==
  IF x.k # "finite" \/ x.m = 0 \/ x.e >= 0 THEN x
  ELSE IF -x.e > P THEN Zero
  ELSE LET q == x.m \div Pow2(-x.e)
           r == x.m % Pow2(-x.e)
           n == IF 2 * r >= Pow2(-x.e) THEN q + 1 ELSE q
       IN IF n = 0 THEN Zero ELSE RoundM(x.s, n, 0)

\* C20: formatBalance(n) is n times 100, rounded to the nearest integer with
\* ties away from zero, divided by 100, for every finite n of either sign
C20_HalfAwayFromZero ==
  last.op = "formatBalance"
    => last.value = <<DividedBy(RoundHalfAway(Times(last.amount, 100)), 100)>>

\* C21: formatBalance is idempotent: rounding a rounded number gives it back,
\* for every finite number
C21_Idempotent ==
  (last.op = "formatBalance" /\ isFinite(last.amount))
    => formatBalance(last.value[1]) = last.value[1]

\* C22: isValidAccountNumber(s) is true exactly when s is whitespace, then
\* between 6 and 12 digits, then whitespace, and nothing else
C22_IdentifierFormat ==
  last.op = "isValidAccountNumber"
    => LET s == last.accountNumber.v
           wellFormed ==
             \E i \in 1..Len(s) : \E j \in i..Len(s) :
               /\ j - i + 1 \in 6..12
               /\ \A k \in 1..Len(s) :
                    IF k \in i..j THEN s[k] \in Digit ELSE s[k] \in Whitespace
       IN last.value = <<Boolean(wellFormed)>>

\* twelve digits with whitespace around have been found valid
C22_Witness ==
  /\ last.op = "isValidAccountNumber"
  /\ last.accountNumber = Str(Padded(Digits(12)))
  /\ last.value = <<Boolean(TRUE)>>

\* the status the specification gives an error of the service or the store
StatusOf(error) ==
  IF error = NotFound THEN 404
  ELSE IF \/ error \in {InvalidInput, InvalidFormat, InsufficientFunds, ValidationFailed,
                        AlreadyExists}
          \/ error.name = "InvalidAmountError"
  THEN 400
  ELSE 500

\* C23: every response to a request that failed has the status of the kind
\* of its error: 400 for a request the middleware rejects, and for an error
\* thrown by the service or the store 404 when it is 'Account not found',
\* 400 when it is one of the other errors of the taxonomy, 500 otherwise
C23_StatusByErrorKind ==
  [][\A n \in DOMAIN responses' \ DOMAIN responses :
       IF pending # <<>>
       THEN responses'[n].status = StatusOf(pending[1].error)
       ELSE validation(requests[n]) # "" => responses'[n].status = 400]_vars

\* C24: the body of every error response has the fields error, code,
\* timestamp, path and method
C24_ErrorBodyShape ==
  \A n \in DOMAIN responses :
    responses[n].status >= 400
      => {"error", "code", "timestamp", "path", "method"} \subseteq responses[n].keys

\* C25: reset and initializeAccounts leave the store as the constructor left
\* it, whatever it held: exactly the five test accounts with their balances;
\* a second reset changes nothing
C25_ResetRestores ==
  [][last'.op \in {"reset", "initializeAccounts"}
       => /\ accounts' = seededAccounts
          /\ DOMAIN accounts' = {Seed1, Seed2, Seed3, Seed4, Seed5}
          /\ \A k \in DOMAIN accounts' : accounts'[k].account_number = Str(k)
          /\ accounts'[Seed1].balance = Dec(1000000)
          /\ accounts'[Seed2].balance = Dec(2500500)
          /\ accounts'[Seed3].balance = Dec(100250)
          /\ accounts'[Seed4].balance = Dec(5000000)
          /\ accounts'[Seed5].balance = Dec(750750)
          /\ reset(accounts') = accounts'
          /\ initializeAccounts(accounts') = accounts']_vars

\* initializeAccounts has run as the last of several calls and the store is
\* the seeded one
C25_Witness ==
  /\ last.op = "initializeAccounts"
  /\ steps = MaxSteps
  /\ accounts = seededAccounts
  /\ NewId \notin DOMAIN accounts

\* C26: the account numbers in the store change only by createAccount,
\* deleteAccount, reset and initializeAccounts (which clear the store and seed
\* it anew); between those, the balance of an account changes only by a
\* withdraw, deposit or updateAccount that returns; getBalance, getAccount,
\* accountExists, getAllAccounts, getAccountCount, withdraw and deposit leave
\* the account numbers as they are, and getBalance, withdraw and deposit on
\* an account number in the store never throw 'Account not found'
C26_Lifecycle ==
  [][LET cleared == last'.op \in {"reset", "initializeAccounts"}
     IN /\ DOMAIN accounts' # DOMAIN accounts
             => cleared \/ last'.op \in {"createAccount", "deleteAccount"}
        /\ \A k \in DOMAIN accounts \cap DOMAIN accounts' :
             accounts'[k].balance # accounts[k].balance
               => \/ cleared
                  \/ last'.op \in {"withdraw", "deposit", "updateAccount"} /\ ~last'.threw
        /\ last'.op \in {"getBalance", "getAccount", "accountExists", "getAllAccounts",
                          "getAccountCount", "withdraw", "deposit", "updateAccount"}
             => DOMAIN accounts' = DOMAIN accounts
        /\ (/\ last'.op \in {"getBalance", "withdraw", "deposit"}
            /\ last'.accountNumber.t = "string"
            /\ trim(last'.accountNumber.v) \in DOMAIN accounts)
             => last'.error # NotFound]_vars

\* a deposit into an account opened by createAccount has returned, the
\* account still in the store with the balance returned
C26_Witness ==
  /\ last.op = "deposit"
  /\ last.accountNumber = Str(NewId)
  /\ ~last.threw
  /\ NewId \in DOMAIN accounts
  /\ accounts[NewId].balance = last.value[1].balance

\* whether the i-th middleware of the withdraw and deposit routes, run on
\* req, rejects it: validateAccountNumber, validateContentType,
\* validateRequestBody, validateAllowedFields, validateAmount
Rejects(i, req) ==
  IF i = 1 THEN ~isValidAccountNumber(req.account_number)
  ELSE IF i = 2 THEN req.contentType # "application/json"
  ELSE IF i = 3 THEN req.body # "object"
  ELSE IF i = 4 THEN ~(req.fields \subseteq {"amount"})
  ELSE ~("amount" \in req.fields /\ typeofNumber(req.amount) = "number"
         /\ isValidAmount(req.amount))

\* the codes of the 400 responses of the i-th middleware
CodesOf(i) ==
  IF i = 1 THEN {"MISSING_ACCOUNT_NUMBER", "INVALID_ACCOUNT_NUMBER"}
  ELSE IF i = 2 THEN {"INVALID_CONTENT_TYPE"}
  ELSE IF i = 3 THEN {"INVALID_REQUEST_BODY"}
  ELSE IF i = 4 THEN {"UNEXPECTED_FIELDS"}
  ELSE {"MISSING_AMOUNT", "INVALID_AMOUNT_TYPE", "INVALID_AMOUNT_VALUE"}

\* C27: the five middlewares run in their order: a request that one of them
\* rejects is answered 400 with a code of the first that rejects it, the
\* service is not called for it and the store stays as it was; the service
\* is called only for a request all five pass; a request is answered once,
\* when its route has run and no error of it is waiting for handleError
C27_MiddlewareOrder ==
  \A n \in DOMAIN requests :
    LET rejecting == {i \in 1..5 : Rejects(i, requests[n])}
        first == CHOOSE i \in rejecting : \A j \in rejecting : i <= j
        called == \E c \in DOMAIN invoked : invoked[c] = n
        waiting == pending # <<>> /\ pending[1].n = n
    IN /\ (rejecting # {} /\ n \in DOMAIN responses)
            => /\ responses[n].status = 400
               /\ responses[n].code \in CodesOf(first)
       /\ rejecting # {} => ~called /\ ~waiting /\ accounts = seededAccounts
       /\ called => rejecting = {}
       /\ n \in DOMAIN responses <=> (n \notin todo /\ ~waiting)
       /\ Cardinality({c \in DOMAIN invoked : invoked[c] = n}) <= 1

\* a request with a good account number, a wrong content type, a field not
\* allowed and an amount of zero has been answered by validateContentType
C27_Witness ==
  /\ 1 \in DOMAIN responses
  /\ requests[1].account_number = Str(Seed1)
  /\ requests[1].contentType = "text/plain"
  /\ requests[1].fields = {"amount", "pin"}
  /\ requests[1].amount = Zero
  /\ responses[1].code = "INVALID_CONTENT_TYPE"

\* C28: a withdraw or deposit that reaches its call of updateAccount (valid
\* amount, account found, for withdraw amount <= balance) never throws the
\* errors of updateAccount
C28_UpdateNeverFails ==
  (/\ \/ OnStoredAccount("deposit")
      \/ OnStoredAccount("withdraw") /\ ~Gt(last.amount, last.before[1])
   /\ NonEmptyString(last.accountNumber)
   /\ isValidAccountNumber(last.accountNumber))
    => last.error \notin {ValidationFailed, DoesNotExist}

\* C29: every entry of the store is kept under the account number its value
\* holds, and that account number has no whitespace around it
C29_KeysAreAccountNumbers ==
  \A k \in DOMAIN accounts :
    /\ accounts[k].account_number = Str(k)
    /\ k # <<>>
    /\ k[1] \notin Whitespace
    /\ k[Len(k)] \notin Whitespace

\* createAccount with spaces around the account number has stored the
\* account under the account number without them
C29_Witness ==
  /\ last.op = "createAccount"
  /\ last.accountNumber = Str(Padded(NewId))
  /\ ~last.threw
  /\ NewId \in DOMAIN accounts
  /\ Padded(NewId) \notin DOMAIN accounts

\* the timeout of the environment the process runs in
TimeoutOf(nodeEnv) == IF nodeEnv = "development" THEN 5000 ELSE 30000

\* C30: graceful shutdown runs at most once: server.close is called once and
\* one timer is set, whatever is received afterwards; the process exits once,
\* with code 0 when the callback of close runs without error, with code 1
\* when it runs with an error or when the timer fires, 5 s after the first
\* signal in development and 30 s otherwise; and once shutdown has begun the
\* process does exit
C30_ShutdownOnce ==
  /\ [](/\ server.closeCalls <= 1
        /\ server.timersSet <= 1
        /\ Len(server.exited) <= 1
        /\ server.isShuttingDown <=> server.signals # <<>>)
  /\ [][/\ (server.isShuttingDown
              => (/\ server'.closeCalls = server.closeCalls
                  /\ server'.timersSet = server.timersSet
                  /\ Len(server'.timers) <= Len(server.timers)))
         /\ (server'.exited # server.exited
              => (LET line == server'.log[Len(server'.log)]
                  IN /\ server.isShuttingDown
                     /\ (server'.exited[1] = 0)
                          <=> (/\ line = "Server closed successfully"
                               /\ server.listening)
                     /\ (server'.exited[1] = 1)
                          <=> (\/ (line = "Error during server shutdown" /\ ~server.listening)
                               \/ (/\ line \in {"Forced shutdown after 5s timeout",
                                                  "Forced shutdown after 30s timeout"}
                                   /\ server.timers[1].elapsed
                                        = TimeoutOf(server.nodeEnv)))))]_vars
  /\ server.isShuttingDown ~> server.exited # <<>>

\* after SIGTERM and then SIGINT the server has closed and the process has
\* exited with code 0, server.close called once
C30_Witness ==
  /\ server.signals = <<"SIGTERM", "SIGINT">>
  /\ server.closeCalls = 1
  /\ server.timersSet = 1
  /\ server.exited = <<0>>
====
